---------------------------- MODULE Spec2Model ----------------------------
(***************************************************************************)
(* A model of artemis/general/generators.py: the two generator combinators *)
(* wrap_generator_with_event and multiplex_generators, with their producer *)
(* threads, the supervising thread and the consumer that drives the        *)
(* returned generator.                                                     *)
(***************************************************************************)
EXTENDS Integers, Sequences, FiniteSets, TLC

\* ------------------------------------------------------------------ bounds
\* Number of sources handed to multiplex_generators.
NumSources == 2
\* Most items the sources of one multiplex_generators call yield together.
MaxItems == 2
\* Longest finite source (or longest period of an endless one) handed to
\* wrap_generator_with_event.
MaxLen == 2
\* Most entries the unbounded queue of wrap_generator_with_event may hold
\* when its source is infinite.
MaxQueue == 2

\* ------------------------------------------------------------ the values
\* The object the code puts on the queue as a marker (line 47); a source may
\* yield the very same object as one of its items.
StopIteration == "StopIteration"
\* Python's None: the name of a source given without a name (line 38).
None == "None"
\* The name run_all pairs with its final marker (line 63).
AggName == ""

Sources == 1..NumSources

\* The k-th item of a source when it is an ordinary value.
Item(k) == ToString(k)

\* The contents a source may have: finitely many items, the k-th one either
\* an ordinary value or the object StopIteration itself.
SourceContents ==
    UNION {[1..n -> {"v", StopIteration}] : n \in 0..MaxItems}

RECURSIVE Total(_, _)
Total(f, i) == IF i = 0 THEN 0 ELSE Len(f[i]) + Total(f, i - 1)

Contents(f) == [k \in DOMAIN f |-> IF f[k] = "v" THEN Item(k) ELSE StopIteration]

VARIABLES
    \* ---- multiplex_generators
    forms,          \* the list passed in: per element "gen" (a bare
                    \* generator) or "tuple" (a (name, generator) pair)
    generators,     \* per source: the items it yields, in order
    ending,         \* per source: what follows its items: "exhaust" (it
                    \* ends), "raise" (it raises), "cycle" (it starts over)
    names,          \* per source: its name (None when use_names is false)
    use_names,      \* line 33 / 37
    stop_at_first,  \* the parameter
    item_q,         \* line 40: the work queue
    thr,            \* per source: its run_one thread: "new", "run", "dead"
                    \* (returned), "failed" (ended by an exception)
    pos,            \* per source: how many items run_one has taken from it
    t,              \* the run_all thread: [pc, i]
    pc,             \* the consumer: "new", "get", "test", "done" (the
                    \* sequence has ended), "error" (the body has raised)
    item,           \* line 70: the entry just dequeued
    hist,           \* history: what the consumer did with each dequeued entry
    \* ---- wrap_generator_with_event
    generator,      \* [items, cyclic]: the wrapped source
    gpos,           \* how many items gen_to_queue has taken from it
    obj_queue,      \* line 12
    event,          \* the cancellation event
    wt,             \* the gen_to_queue thread: "new", "run", "dead"
    wpc,            \* the consumer: "new", "get", "done"
    yielded         \* history: the items yielded so far

mvars == <<forms, generators, ending, names, use_names, stop_at_first, item_q,
           thr, pos, t, pc, item, hist>>
wvars == <<generator, gpos, obj_queue, event, wt, wpc, yielded>>
vars == <<mvars, wvars>>

\* ------------------------------------------------- multiplex_generators
\* A queue entry.  name and val are what the code enqueues ((name, item), or
\* item alone when use_names is false: name is then None and never read).
\* src and kind are history only: which thread enqueued the entry and as
\* what ("item", "eos" for run_one's marker, "agg" for run_all's).
Entry(n, v, s, k) == [name |-> n, val |-> v, src |-> s, kind |-> k]

NoItem == Entry(None, None, 0, "none")

\* No wrap_generator_with_event call is under way.
WIdle ==
    /\ generator = [items |-> <<>>, cyclic |-> FALSE]
    /\ gpos = 0
    /\ obj_queue = <<>>
    /\ event = FALSE
    /\ wt = "new"
    /\ wpc = "new"
    /\ yielded = <<>>

\* The name the caller pairs with the i-th generator.
SuppliedName(i) == "n" \o ToString(i)
\* A generator object met as a value (the second half of a pair).
GenObj == "generator"

\* The lists the docstring allows: all bare generators, or all pairs.
WellFormed == {[i \in Sources |-> f] : f \in {"gen", "tuple"}}
\* Every list: the empty one, and each mix of bare generators and pairs.
AnyForms == {<< >>} \cup [Sources -> {"gen", "tuple"}]

Exhausting == {[i \in Sources |-> "exhaust"]}

\* A call multiplex_generators(list, stop_at_first) has returned its
\* generator object, whose body has not run yet: the list has one of the
\* forms F, its generators end in one of the ways E, the policy is among P.
InitM(F, E, P) ==
    /\ forms \in F
    /\ \E f \in [Sources -> SourceContents] :
          /\ Total(f, NumSources) <= MaxItems
          /\ generators = [i \in Sources |-> Contents(f[i])]
    /\ ending \in E
    /\ \A i \in Sources : ending[i] = "cycle" => Len(generators[i]) >= 1
    /\ stop_at_first \in P
    /\ use_names = FALSE
    /\ names = [i \in Sources |-> None]
    /\ item_q = <<>>
    /\ thr = [i \in Sources |-> "new"]
    /\ pos = [i \in Sources |-> 0]
    /\ t = [pc |-> "new", i |-> 1]
    /\ pc = "new"
    /\ item = NoItem
    /\ hist = <<>>
    /\ WIdle

Init == InitM(WellFormed, Exhausting, BOOLEAN)

\* Line 34, zip(*generators) with a bare generator among the pairs: zip takes
\* an item of it for each half of a pair, and comes out shorter than two,
\* which line 34 cannot unpack, when the generator has fewer than two items.
ZipShort(i) ==
    forms[i] = "gen" /\ ending[i] # "cycle" /\ Len(generators[i]) < 2

\* Lines 30-38 raise: generators[0] of an empty list (line 31), or the
\* unpacking of a zip that came out short (line 34).
Rejected ==
    \/ forms = << >>
    \/ forms[1] = "tuple" /\ \E i \in Sources : ZipShort(i)

\* Lines 31-38: what the threads will iterate, how it ends, and under which
\* name.  Only element 0 of the list is looked at (lines 31, 32, 36).
\*  - Pairs unzipped (line 34): a pair gives its name and its generator; a
\*    bare generator among them gives its first item as the name and its
\*    second item as the "source", and iterating that item raises in the
\*    thread (an ordinary item is not iterable).
\*  - Bare generators (lines 36-38): a generator is iterated as it is; a pair
\*    among them is iterated as a tuple, and yields its name and its
\*    generator object.
EffGenerators ==
    [i \in Sources |->
        IF forms[1] = "tuple"
        THEN IF forms[i] = "tuple" THEN generators[i] ELSE << >>
        ELSE IF forms[i] = "gen" THEN generators[i]
                                 ELSE <<SuppliedName(i), GenObj>>]

EffEnding ==
    [i \in Sources |->
        IF forms[1] = "tuple"
        THEN IF forms[i] = "tuple" THEN ending[i] ELSE "raise"
        ELSE IF forms[i] = "gen" THEN ending[i] ELSE "exhaust"]

EffNames ==
    [i \in Sources |->
        IF forms[1] = "tuple"
        THEN IF forms[i] = "tuple" THEN SuppliedName(i) ELSE generators[i][1]
        ELSE None]

\* Lines 30-40 and 67-68: the first next() on the returned generator runs the
\* body up to the loop: it checks element 0 of the list, splits names from
\* generators, creates the queue and starts the run_all thread; or it raises
\* before any of that.
Start ==
    /\ pc = "new"
    /\ IF Rejected
       THEN /\ pc' = "error"
            /\ UNCHANGED <<generators, ending, names, use_names, t>>
       ELSE /\ pc' = "get"
            /\ use_names' = (forms[1] = "tuple")
            /\ names' = EffNames
            /\ generators' = EffGenerators
            /\ ending' = EffEnding
            /\ t' = [pc |-> "start", i |-> 1]
    /\ UNCHANGED <<forms, stop_at_first, item_q, thr, pos, item, hist>>
    /\ UNCHANGED wvars

\* run_one with the marker enqueued inside the loop, after every item.
run_one_marker_in_loop(i) ==
    /\ thr[i] = "run"
    /\ IF pos[i] < Len(generators[i])
       THEN /\ item_q' = item_q \o
                   <<[name |-> names[i], val |-> generators[i][pos[i] + 1],
                      src |-> i, kind |-> "item"],
                     [name |-> names[i], val |-> StopIteration,
                      src |-> i, kind |-> "eos"]>>
            /\ pos' = [pos EXCEPT ![i] = @ + 1]
            /\ thr' = thr
       ELSE /\ item_q' = item_q
            /\ thr' = [thr EXCEPT ![i] = "dead"]
            /\ pos' = pos
    /\ UNCHANGED <<forms, generators, ending, names, use_names, stop_at_first,
                   t, pc, item, hist>>
    /\ UNCHANGED wvars

\* run_one with every thread enqueuing under the name of the last source
\* (the loop variable of run_all read late).
run_one_last_name(i) ==
    /\ thr[i] = "run"
    /\ IF ending[i] = "cycle"
       THEN /\ Len(item_q) < MaxQueue
            /\ item_q' = Append(item_q,
                   [name |-> names[NumSources],
                    val |-> generators[i][pos[i] + 1], src |-> i, kind |-> "item"])
            /\ pos' = [pos EXCEPT ![i] = (@ + 1) % Len(generators[i])]
            /\ thr' = thr
       ELSE IF pos[i] < Len(generators[i])
       THEN /\ item_q' = Append(item_q,
                   [name |-> names[NumSources],
                    val |-> generators[i][pos[i] + 1], src |-> i, kind |-> "item"])
            /\ pos' = [pos EXCEPT ![i] = @ + 1]
            /\ thr' = thr
       ELSE IF ending[i] = "raise"
       THEN /\ thr' = [thr EXCEPT ![i] = "failed"]
            /\ UNCHANGED <<item_q, pos>>
       ELSE /\ item_q' = Append(item_q,
                   [name |-> names[NumSources], val |-> StopIteration,
                    src |-> i, kind |-> "eos"])
            /\ thr' = [thr EXCEPT ![i] = "dead"]
            /\ pos' = pos
    /\ UNCHANGED <<forms, generators, ending, names, use_names, stop_at_first,
                   t, pc, item, hist>>
    /\ UNCHANGED wvars

\* run_one with the thread stopped once the consumer has ended the sequence.
run_one_cancelled(i) ==
    /\ pc # "done"
    /\ thr[i] = "run"
    /\ IF ending[i] = "cycle"
       THEN /\ Len(item_q) < MaxQueue
            /\ item_q' = Append(item_q,
                   [name |-> names[i], val |-> generators[i][pos[i] + 1],
                    src |-> i, kind |-> "item"])
            /\ pos' = [pos EXCEPT ![i] = (@ + 1) % Len(generators[i])]
            /\ thr' = thr
       ELSE IF pos[i] < Len(generators[i])
       THEN /\ item_q' = Append(item_q,
                   [name |-> names[i], val |-> generators[i][pos[i] + 1],
                    src |-> i, kind |-> "item"])
            /\ pos' = [pos EXCEPT ![i] = @ + 1]
            /\ thr' = thr
       ELSE IF ending[i] = "raise"
       THEN /\ thr' = [thr EXCEPT ![i] = "failed"]
            /\ UNCHANGED <<item_q, pos>>
       ELSE /\ item_q' = Append(item_q,
                   [name |-> names[i], val |-> StopIteration,
                    src |-> i, kind |-> "eos"])
            /\ thr' = [thr EXCEPT ![i] = "dead"]
            /\ pos' = pos
    /\ UNCHANGED <<forms, generators, ending, names, use_names, stop_at_first,
                   t, pc, item, hist>>
    /\ UNCHANGED wvars

\* Lines 41-51, one step of the thread of source i: the next item of the
\* source is enqueued; or, the source being exhausted, the marker is enqueued
\* and the thread ends; or, the source raising, the exception ends the thread
\* at line 42, nothing is enqueued and nothing tells the other threads.  The
\* queue is unbounded; the model lets an endless source add to it while it
\* holds fewer than MaxQueue entries.
run_one(i) ==
    /\ thr[i] = "run"
    /\ IF ending[i] = "cycle"
       THEN /\ Len(item_q) < MaxQueue
            /\ item_q' = Append(item_q,
                   Entry(names[i], generators[i][pos[i] + 1], i, "item"))
            /\ pos' = [pos EXCEPT ![i] = (@ + 1) % Len(generators[i])]
            /\ thr' = thr
       ELSE IF pos[i] < Len(generators[i])
       THEN /\ item_q' = Append(item_q,
                   Entry(names[i], generators[i][pos[i] + 1], i, "item"))
            /\ pos' = [pos EXCEPT ![i] = @ + 1]
            /\ thr' = thr
       ELSE IF ending[i] = "raise"
       THEN /\ thr' = [thr EXCEPT ![i] = "failed"]
            /\ UNCHANGED <<item_q, pos>>
       ELSE /\ item_q' = Append(item_q, Entry(names[i], StopIteration, i, "eos"))
            /\ thr' = [thr EXCEPT ![i] = "dead"]
            /\ pos' = pos
    /\ UNCHANGED <<forms, generators, ending, names, use_names, stop_at_first,
                   t, pc, item, hist>>
    /\ UNCHANGED wvars

\* run_all with the final marker put before the threads are joined.
run_all_put_before_join ==
    /\ CASE t.pc = "start" ->
              /\ thr' = [thr EXCEPT ![t.i] = "run"]
              /\ t' = IF t.i < NumSources THEN [t EXCEPT !.i = @ + 1]
                                          ELSE [pc |-> "put", i |-> 1]
              /\ item_q' = item_q
         [] t.pc = "put" ->
              /\ item_q' = Append(item_q,
                     [name |-> IF use_names THEN AggName ELSE None,
                      val |-> StopIteration, src |-> 0, kind |-> "agg"])
              /\ t' = [pc |-> "join", i |-> 1]
              /\ thr' = thr
         [] t.pc = "join" ->
              /\ thr[t.i] \in {"dead", "failed"}
              /\ t' = IF t.i < NumSources THEN [t EXCEPT !.i = @ + 1]
                                          ELSE [pc |-> "exit", i |-> 1]
              /\ UNCHANGED <<thr, item_q>>
         [] t.pc = "exit" ->
              /\ t' = [t EXCEPT !.pc = "dead"]
              /\ UNCHANGED <<thr, item_q>>
         [] OTHER -> FALSE
    /\ UNCHANGED <<forms, generators, ending, names, use_names, stop_at_first,
                   pos, pc, item, hist>>
    /\ UNCHANGED wvars

\* Lines 53-65, one step of the supervising thread.
run_all ==
    /\ CASE t.pc = "start" ->
              \* lines 55-58: start the thread of the next source
              /\ thr' = [thr EXCEPT ![t.i] = "run"]
              /\ t' = IF t.i < NumSources THEN [t EXCEPT !.i = @ + 1]
                                          ELSE [pc |-> "join", i |-> 1]
              /\ item_q' = item_q
         [] t.pc = "join" ->
              \* lines 59-60: join returns once that thread has ended,
              \* by returning or by an exception
              /\ thr[t.i] \in {"dead", "failed"}
              /\ t' = IF t.i < NumSources THEN [t EXCEPT !.i = @ + 1]
                                          ELSE [pc |-> "put", i |-> 1]
              /\ UNCHANGED <<thr, item_q>>
         [] t.pc = "put" ->
              \* lines 62-65
              /\ item_q' = Append(item_q,
                     Entry(IF use_names THEN AggName ELSE None, StopIteration, 0, "agg"))
              /\ t' = [t EXCEPT !.pc = "exit"]
              /\ thr' = thr
         [] t.pc = "exit" ->
              \* run_all returns: from now on t.is_alive() is false
              /\ t' = [t EXCEPT !.pc = "dead"]
              /\ UNCHANGED <<thr, item_q>>
         [] OTHER -> FALSE
    /\ UNCHANGED <<forms, generators, ending, names, use_names, stop_at_first,
                   pos, pc, item, hist>>
    /\ UNCHANGED wvars

\* threading.Thread.is_alive of the run_all thread
is_alive == t.pc \in {"start", "join", "put", "exit"}

\* Line 70 on a queue.LifoQueue: the newest entry is dequeued.
Get_lifo ==
    /\ pc = "get"
    /\ item_q # <<>>
    /\ item' = item_q[Len(item_q)]
    /\ item_q' = SubSeq(item_q, 1, Len(item_q) - 1)
    /\ pc' = "test"
    /\ UNCHANGED <<forms, generators, ending, names, use_names, stop_at_first,
                   thr, pos, t, hist>>
    /\ UNCHANGED wvars

\* Line 70 reached again after the sequence has ended.
Get_after_end ==
    /\ pc \in {"get", "done"}
    /\ item_q # <<>>
    /\ item' = Head(item_q)
    /\ item_q' = Tail(item_q)
    /\ pc' = "test"
    /\ UNCHANGED <<forms, generators, ending, names, use_names, stop_at_first,
                   thr, pos, t, hist>>
    /\ UNCHANGED wvars

\* Line 70: item_q.get() blocks until the queue holds an entry.
Get ==
    /\ pc = "get"
    /\ item_q # <<>>
    /\ item' = Head(item_q)
    /\ item_q' = Tail(item_q)
    /\ pc' = "test"
    /\ UNCHANGED <<forms, generators, ending, names, use_names, stop_at_first,
                   thr, pos, t, hist>>
    /\ UNCHANGED wvars

\* Lines 71-77 with the wrong half of the pair compared (item[0]).
stopiteration_received_name(it) == it.name = StopIteration

\* Lines 71-77
stopiteration_received(it) == it.val = StopIteration

\* Lines 79-90: what the loop body does with the entry: "end" (raise
\* StopIteration), "yield" or "drop" (pass).
Decide(it) ==
    IF stop_at_first
    THEN IF stopiteration_received(it) THEN "end" ELSE "yield"
    ELSE IF ~is_alive THEN "end"
         ELSE IF stopiteration_received(it) THEN "drop" ELSE "yield"

\* The history is kept for finite sources, of which it holds every dequeued
\* entry when the list is well formed (at most HistCap of them); an endless
\* source is dequeued without end, and no history is kept of such a run.
HistCap == MaxItems + NumSources + 1

Recording ==
    /\ Len(hist) < HistCap
    /\ \A i \in Sources : ending[i] # "cycle"

Test ==
    /\ pc = "test"
    /\ hist' = IF Recording
               THEN Append(hist, [e |-> item, out |-> Decide(item)])
               ELSE hist
    /\ pc' = IF Decide(item) = "end" THEN "done" ELSE "get"
    /\ UNCHANGED <<forms, generators, ending, names, use_names, stop_at_first,
                   item_q, thr, pos, t, item>>
    /\ UNCHANGED wvars

\* next() on the generator after lines 81 / 86 have ended it: a finished
\* generator runs none of its body and reports the end again.
Exhausted ==
    /\ pc = "done"
    /\ UNCHANGED vars

Consumer == Start \/ Get \/ Test \/ Exhausted

Next == Consumer \/ run_all \/ \E i \in Sources : run_one(i)

Spec == Init /\ [][Next]_vars

\* Every thread, and the caller that iterates the generator, keeps running.
Fairness ==
    /\ WF_vars(Consumer)
    /\ WF_vars(run_all)
    /\ \A i \in Sources : WF_vars(run_one(i))

FairSpec ==
    /\ Spec
    /\ WF_vars(Consumer)
    /\ WF_vars(run_all)
    /\ \A i \in Sources : WF_vars(run_one(i))

\* Well-formed lists of generators that end by exhaustion, merged with
\* stop_at_first true.
InitFirst == InitM(WellFormed, Exhausting, {TRUE})
FirstFairSpec == InitFirst /\ [][Next]_vars /\ Fairness

\* Well-formed lists of generators each of which ends by exhaustion or never
\* ends, merged with stop_at_first true.
InitEndless == InitM(WellFormed, [Sources -> {"exhaust", "cycle"}], {TRUE})
EndlessFairSpec == InitEndless /\ [][Next]_vars /\ Fairness

\* Any list at all, of generators that end by exhaustion.
InitArgs == InitM(AnyForms, Exhausting, BOOLEAN)
ArgSpec == InitArgs /\ [][Next]_vars

\* Well-formed lists of generators that end by exhaustion, by raising, or
\* never.
InitEndings == InitM(WellFormed, [Sources -> {"exhaust", "raise", "cycle"}], BOOLEAN)
EndingSpec == InitEndings /\ [][Next]_vars
EndingFairSpec == EndingSpec /\ Fairness

\* ------------------------------------------- properties: multiplex_generators
Range(s) == {s[k] : k \in DOMAIN s}
Count(s, x) == Cardinality({k \in DOMAIN s : s[k] = x})
Last(s) == s[Len(s)]
IsPrefix(a, b) == Len(a) <= Len(b) /\ \A k \in 1..Len(a) : a[k] = b[k]

RECURSIVE Concat(_, _)
Concat(f, i) == IF i = 0 THEN <<>> ELSE Concat(f, i - 1) \o f[i]

\* What the consumer receives for an entry: (name, item), or the item alone.
Payload(e) == IF use_names THEN <<e.name, e.val>> ELSE <<e.val>>

\* The entries yielded so far, in order, and what the consumer saw of them.
Yielded == SelectSeq(hist, LAMBDA h : h.out = "yield")
YieldedPayloads == [k \in DOMAIN Yielded |-> Payload(Yielded[k].e)]

\* The items of source i yielded so far, in order.
YieldedOf(i) ==
    LET ys == SelectSeq(Yielded, LAMBDA h : h.e.src = i)
    IN  [k \in DOMAIN ys |-> ys[k].e.val]

\* Everything the sources hold, as the consumer would receive it.
AllPayloads ==
    Concat([i \in Sources |->
               [k \in DOMAIN generators[i] |->
                   Payload(Entry(names[i], generators[i][k], i, "item"))]],
           NumSources)

SameBag(a, b) == \A x \in Range(a) \cup Range(b) : Count(a, x) = Count(b, x)

\* No source yields the object StopIteration as an item.
Legit == \A i \in Sources : \A k \in DOMAIN generators[i] :
            generators[i][k] # StopIteration

\* The entries thread i has enqueued so far, in the order the consumer meets
\* them: those already dequeued, the one in hand, those still queued.
Stream(i) ==
    LET inhand == IF pc = "test" THEN <<item>> ELSE <<>>
        all == [k \in DOMAIN hist |-> hist[k].e] \o inhand \o item_q
    IN  SelectSeq(all, LAMBDA e : e.src = i)

\* What thread i enqueues over its whole life: the items, then its marker.
FullStream(i) ==
    [k \in DOMAIN generators[i] |->
        Entry(names[i], generators[i][k], i, "item")]
    \o <<Entry(names[i], StopIteration, i, "eos")>>

\* C1: with stop_at_first false, when the sequence has ended the yielded
\* items are, as a multiset, exactly the items of all sources.  Stated for
\* sources that never yield the object StopIteration.
C1_AllDelivered ==
    (~stop_at_first /\ Legit /\ pc = "done") => SameBag(YieldedPayloads, AllPayloads)

\* C2: with stop_at_first false, under fair scheduling of every thread and of
\* the consumer, the sequence eventually ends.  Stated for sources that never
\* yield the object StopIteration.
C2_Terminates ==
    (~stop_at_first /\ Legit) => <>(pc = "done")

\* C3: with stop_at_first true, the sequence ends exactly at the first
\* dequeue of a source's end marker: the entry it ends on is such a marker,
\* no marker is dequeued without ending it, every item dequeued before has
\* been yielded, and nothing is dequeued or yielded after the end.
C3_EndsAtFirstMarker ==
    stop_at_first =>
        /\ pc = "done" => Last(hist).e.kind = "eos"
        /\ \A k \in DOMAIN hist :
              /\ hist[k].e.kind = "eos" => (hist[k].out = "end" /\ k = Len(hist))
              /\ hist[k].e.kind = "item" => hist[k].out = "yield"
              /\ hist[k].out = "end" => (k = Len(hist) /\ pc = "done")

\* C7: under both policies, the items of each source yielded so far are a
\* prefix of that source's items, in the source's order.
C7_PerSourcePrefix ==
    \A i \in Sources : IsPrefix(YieldedOf(i), generators[i])

\* C8: with stop_at_first false, the sequence ends only on dequeuing the
\* marker of run_all itself, never on an item or on a source's end marker.
\* Stated for sources that never yield the object StopIteration.
C8_EndsOnAggregateOnly ==
    (~stop_at_first /\ Legit /\ pc = "done") => Last(hist).e.kind = "agg"

\* C9: under both policies no marker, bare or paired with a name, is ever
\* yielded: every yielded entry was enqueued as a source item, and none
\* carries the marker object.
C9_NoMarkerYielded ==
    \A k \in DOMAIN hist :
        hist[k].out = "yield" =>
            /\ hist[k].e.kind = "item"
            /\ hist[k].e.val # StopIteration
            /\ hist[k].e.src \in Sources

\* C9 witness: a named drain-all run that has yielded an item and has
\* dequeued, without yielding them, a source's marker and run_all's.
C9_Witness ==
    /\ ~stop_at_first /\ use_names
    /\ \E k \in DOMAIN hist : hist[k].out = "yield"
    /\ \E k \in DOMAIN hist : hist[k].e.kind = "eos"
    /\ \E k \in DOMAIN hist : hist[k].e.kind = "agg"

\* C10: each thread enqueues its items in order, then its marker, once, and
\* nothing after it (what it has enqueued is the prefix of items-then-marker
\* that its position tells, and holds the marker exactly when the thread has
\* ended); so once the consumer has dequeued the marker of a source, no item
\* of that source is yielded.
C10_MarkerLast ==
    \A i \in Sources :
        /\ Stream(i) = SubSeq(FullStream(i), 1,
                              pos[i] + (IF thr[i] = "dead" THEN 1 ELSE 0))
        /\ thr[i] = "dead" => pos[i] = Len(generators[i])
        /\ \A j, k \in DOMAIN hist :
              (j < k /\ hist[j].e.kind = "eos" /\ hist[j].e.src = i)
                 => ~(hist[k].out = "yield" /\ hist[k].e.src = i)

\* C10 witness: a drain-all run in which a source's marker was dequeued after
\* one of its items was yielded, and another source's item was yielded later.
C10_Witness ==
    /\ ~stop_at_first
    /\ \E j, k, l \in DOMAIN hist :
          /\ j < k /\ k < l
          /\ hist[j].out = "yield" /\ hist[k].e.kind = "eos"
          /\ hist[j].e.src = hist[k].e.src
          /\ hist[l].out = "yield" /\ hist[l].e.src # hist[k].e.src

\* C11: a list that breaks the contract (the empty list, or a mix of pairs
\* and bare generators) is rejected before any thread is started and before
\* anything is enqueued: once the body has run it has raised, and no thread
\* ever runs and the queue stays empty.
C11_RejectsBadLists ==
    forms \notin WellFormed =>
        /\ pc \in {"new", "error"}
        /\ t.pc = "new"
        /\ \A i \in Sources : thr[i] = "new"
        /\ item_q = << >>

\* C12: a failure of a producer thread reaches the consumer: when the
\* consumer has dequeued everything up to run_all's final marker, that is
\* past the place of every source's end marker, and the sequence has ended
\* there as a normal end, no source has raised.
C12_FailureSurfaces ==
    (pc = "done" /\ hist # << >> /\ Last(hist).e.kind = "agg")
        => \A i \in Sources : thr[i] # "failed"

\* C13: with named sources every yielded entry is a pair whose name is the
\* name supplied with the source that produced the item, and whose item is
\* one of the items of the source supplied under that name.
C13_YieldedUnderOwnName ==
    use_names =>
        \A k \in DOMAIN hist :
            hist[k].out = "yield" =>
                /\ hist[k].e.name = SuppliedName(hist[k].e.src)
                /\ \E i \in Sources :
                      /\ SuppliedName(i) = hist[k].e.name
                      /\ hist[k].e.val \in Range(generators[i])

\* C13 witness: a run with named sources that has yielded an item of each of
\* two sources.
C13_Witness ==
    /\ use_names
    /\ \E j, k \in DOMAIN hist :
          /\ hist[j].out = "yield" /\ hist[k].out = "yield"
          /\ hist[j].e.src # hist[k].e.src

\* C14: the end is final.  From a state in which the sequence has ended,
\* every step (a further next() on the generator, or a step of a thread)
\* leaves it ended without an error, yields and dequeues nothing, and at most
\* adds entries at the back of the queue.
C14_DoneIsTerminal ==
    [][pc = "done" =>
          /\ pc' = "done"
          /\ hist' = hist
          /\ item' = item
          /\ Len(item_q') >= Len(item_q)
          /\ SubSeq(item_q', 1, Len(item_q)) = item_q]_vars

\* C14 witness: the sequence was ended by the first end marker, every thread
\* has run to its end since, and what they enqueued is still in the queue.
C14_Witness ==
    /\ pc = "done" /\ stop_at_first
    /\ t.pc = "dead"
    /\ Len(item_q) >= 2

\* Every entry enqueued so far, in the order the consumer meets them.
AllEntries ==
    [k \in DOMAIN hist |-> hist[k].e]
        \o (IF pc = "test" THEN <<item>> ELSE << >>) \o item_q

AggCount == Cardinality({k \in DOMAIN AllEntries : AllEntries[k].kind = "agg"})

\* C15: run_all enqueues its final marker exactly once (it is there from
\* the put on, and never before), only after every run_one thread has ended
\* and so after all their items and markers; nothing is enqueued after it,
\* and it is the last entry the consumer can meet.
C15_AggregateLast ==
    /\ AggCount = (IF t.pc \in {"exit", "dead"} THEN 1 ELSE 0)
    /\ AggCount = 1 =>
          /\ \A i \in Sources : thr[i] = "dead" /\ Stream(i) = FullStream(i)
          /\ Last(AllEntries).kind = "agg"
          /\ \A k \in DOMAIN hist :
                hist[k].e.kind = "agg" => k = Len(hist)

\* C15 witness: a drain-all run in which the consumer has dequeued the final
\* marker after an item and the end markers of all sources.
C15_Witness ==
    /\ ~stop_at_first
    /\ hist # << >> /\ Last(hist).e.kind = "agg"
    /\ \E k \in DOMAIN hist : hist[k].e.kind = "item"
    /\ \A i \in Sources : \E k \in DOMAIN hist :
          hist[k].e.kind = "eos" /\ hist[k].e.src = i

\* Every thread has run to its end and everything they enqueue is enqueued.
AllEnqueued ==
    /\ t.pc = "dead"
    /\ \A i \in Sources : thr[i] = "dead" /\ Stream(i) = FullStream(i)
    /\ AggCount = 1

\* C17: with stop_at_first true, the step that ends the sequence changes
\* nothing of the threads or of the queue; after it the threads are neither
\* stopped nor blocked, they run to their end and enqueue all they have
\* (under fair scheduling); and nothing is dequeued any more.
C17_ProducersUntouched ==
    /\ [][(stop_at_first /\ pc # "done" /\ pc' = "done")
              => UNCHANGED <<thr, pos, t, item_q>>]_vars
    /\ [][(stop_at_first /\ pc = "done")
              => SubSeq(item_q', 1, Len(item_q)) = item_q]_vars
    /\ (stop_at_first /\ pc = "done") ~> (pc = "done" /\ AllEnqueued)

\* C17 witness: the sequence has ended on the first end marker while another
\* thread was still running; all threads have ended since and their later
\* entries, run_all's marker among them, sit in the queue.
C17_Witness ==
    /\ stop_at_first /\ pc = "done" /\ AllEnqueued
    /\ \E k \in DOMAIN item_q : item_q[k].kind = "item"
    /\ \E k \in DOMAIN item_q : item_q[k].kind = "eos"

\* C18: no item of a source is taken for a marker, whatever its value: with
\* stop_at_first true a dequeued item does not end the sequence, and with
\* stop_at_first false a dequeued item is not discarded.
C18_ItemNeverTakenForMarker ==
    \A k \in DOMAIN hist :
        hist[k].e.kind = "item" =>
            /\ stop_at_first => hist[k].out # "end"
            /\ ~stop_at_first => hist[k].out # "drop"

\* C19: with stop_at_first true, when the sequence has ended it ended on the
\* end marker of a source (not on run_all's marker, and on nothing else),
\* and every item of that source has been yielded.
C19_EndingSourceDelivered ==
    (stop_at_first /\ pc = "done") =>
        /\ Last(hist).e.kind = "eos"
        /\ Last(hist).e.src \in Sources
        /\ YieldedOf(Last(hist).e.src) = generators[Last(hist).e.src]

\* C20: with stop_at_first true and at least one source that ends by
\* exhaustion, the sequence eventually ends under fair scheduling, endless
\* though the other sources may be.
C20_FirstEndTerminates ==
    (\E i \in Sources : ending[i] = "exhaust") => <>(pc = "done")

\* C20 witness: the sequence has ended on the end marker of a source, with
\* the thread of an endless source still running.
C20_Witness ==
    /\ pc = "done" /\ item.kind = "eos"
    /\ \E i \in Sources : ending[i] = "cycle" /\ thr[i] = "run"

\* --------------------------------------------- wrap_generator_with_event
\* The history keeps the first MaxHist yields (an endless source yields
\* without end).
MaxHist == MaxLen + 1

\* The sources: a finite one yields items[1..n] and is exhausted; a cyclic
\* one (itertools.cycle) yields them over and over and never ends.  The
\* wrapper never looks at an item, so the k-th item is the number k.
WrapSources ==
    {[items |-> [k \in 1..n |-> k], cyclic |-> c] :
        <<n, c>> \in {x \in (0..MaxLen) \X BOOLEAN : x[2] => x[1] >= 1}}

\* No multiplex_generators call is under way.
MIdle ==
    /\ forms = << >>
    /\ generators = [i \in Sources |-> <<>>]
    /\ ending = [i \in Sources |-> "exhaust"]
    /\ use_names = FALSE
    /\ names = [i \in Sources |-> None]
    /\ stop_at_first = TRUE
    /\ item_q = <<>>
    /\ thr = [i \in Sources |-> "new"]
    /\ pos = [i \in Sources |-> 0]
    /\ t = [pc |-> "new", i |-> 1]
    /\ pc = "new"
    /\ item = NoItem
    /\ hist = <<>>

InitWrap ==
    /\ MIdle
    /\ generator \in WrapSources
    /\ gpos = 0
    /\ obj_queue = <<>>
    /\ event = FALSE
    /\ wt = "new"
    /\ wpc = "new"
    /\ yielded = <<>>

\* Lines 12-14: the first next() creates the queue and starts the thread.
WStart ==
    /\ wpc = "new"
    /\ wpc' = "get"
    /\ wt' = "run"
    /\ UNCHANGED <<generator, gpos, obj_queue, event, yielded>>
    /\ UNCHANGED mvars

\* Lines 7-9, one step of the thread: the next item of the source is
\* enqueued, or, the source being exhausted, the thread ends.  The queue is
\* unbounded; the model lets an endless source run MaxQueue entries ahead.
gen_to_queue ==
    /\ wt = "run"
    /\ IF generator.cyclic
       THEN /\ Len(obj_queue) < MaxQueue
            /\ obj_queue' = Append(obj_queue, generator.items[gpos + 1])
            /\ gpos' = (gpos + 1) % Len(generator.items)
            /\ wt' = wt
       ELSE IF gpos < Len(generator.items)
       THEN /\ obj_queue' = Append(obj_queue, generator.items[gpos + 1])
            /\ gpos' = gpos + 1
            /\ wt' = wt
       ELSE /\ wt' = "dead"
            /\ UNCHANGED <<obj_queue, gpos>>
    /\ UNCHANGED <<generator, event, wpc, yielded>>
    /\ UNCHANGED mvars

Record(h, x) == IF Len(h) < MaxHist THEN Append(h, x) ELSE h

\* Lines 17-18 with the event looked at before the entry is yielded.
WGet_event_first ==
    /\ wpc = "get"
    /\ obj_queue # <<>>
    /\ IF event
       THEN /\ wpc' = "done"
            /\ UNCHANGED <<yielded, obj_queue>>
       ELSE /\ yielded' = Record(yielded, Head(obj_queue))
            /\ obj_queue' = Tail(obj_queue)
            /\ wpc' = wpc
    /\ UNCHANGED <<generator, gpos, event, wt>>
    /\ UNCHANGED mvars

\* Lines 17-18 with the entry read but left on the queue.
WGet_peek ==
    /\ wpc = "get"
    /\ obj_queue # <<>>
    /\ yielded' = Record(yielded, Head(obj_queue))
    /\ UNCHANGED <<generator, gpos, obj_queue, event, wt, wpc>>
    /\ UNCHANGED mvars

\* Lines 17-18: the pop finds an entry within the timeout and yields it.
WGet ==
    /\ wpc = "get"
    /\ obj_queue # <<>>
    /\ yielded' = Record(yielded, Head(obj_queue))
    /\ obj_queue' = Tail(obj_queue)
    /\ UNCHANGED <<generator, gpos, event, wt, wpc>>
    /\ UNCHANGED mvars

\* Lines 19-21 with the sequence ended on every timeout.
WTimeout_always_ends ==
    /\ wpc = "get"
    /\ obj_queue = <<>>
    /\ wpc' = "done"
    /\ UNCHANGED <<generator, gpos, obj_queue, event, wt, yielded>>
    /\ UNCHANGED mvars

\* Lines 19-21: the pop times out on an empty queue; the sequence ends if
\* the event is set, and the loop tries again if not.
WTimeout ==
    /\ wpc = "get"
    /\ obj_queue = <<>>
    /\ wpc' = IF event THEN "done" ELSE "get"
    /\ UNCHANGED <<generator, gpos, obj_queue, event, wt, yielded>>
    /\ UNCHANGED mvars

\* event.set(), by whoever holds the event, at any time.
SetEvent ==
    /\ ~event
    /\ event' = TRUE
    /\ UNCHANGED <<generator, gpos, obj_queue, wt, wpc, yielded>>
    /\ UNCHANGED mvars

WConsumer == WStart \/ WGet \/ WTimeout

NextWrap == WConsumer \/ gen_to_queue \/ SetEvent

SpecWrap == InitWrap /\ [][NextWrap]_vars

\* The thread and the caller that iterates the generator keep running; the
\* event is set or not as its owner pleases.
WrapFairSpec ==
    /\ SpecWrap
    /\ WF_vars(WConsumer)
    /\ WF_vars(gen_to_queue)

\* -------------------------------------- properties: wrap_generator_with_event
\* The k-th item the source yields.
SourceItem(k) == generator.items[((k - 1) % Len(generator.items)) + 1]

\* C4 as stated: over a finite source, the event never being set, the
\* wrapped sequence yields exactly the items of the source and then ends.
C4_YieldsAllThenEnds ==
    (~generator.cyclic /\ []~event)
        => <>(wpc = "done" /\ yielded = generator.items)

\* C4 as amended: over a finite source, the event never being set, the
\* wrapped sequence comes to have yielded exactly the items of the source, in
\* the source's order, yields nothing more, and never ends: the loop keeps
\* polling.
C4_YieldsAllAndPolls ==
    (~generator.cyclic /\ []~event)
        => /\ <>[](yielded = generator.items)
           /\ [](wpc # "done")

\* C4 witness: the single item of a one-item source has been yielded, the
\* thread has ended, the event is not set and the consumer is polling.
C4_Witness ==
    /\ ~generator.cyclic /\ Len(generator.items) = 1
    /\ yielded = generator.items
    /\ wt = "dead" /\ obj_queue = <<>> /\ ~event /\ wpc = "get"

\* C5: over an endless source, once the event is set the wrapped sequence
\* eventually ends, whatever the speeds of the thread and of the consumer.
C5_CancelEnds ==
    generator.cyclic => (event ~> (wpc = "done"))

\* C6: the items yielded so far are a prefix of what the source yields: the
\* k-th yielded item is the source's k-th item, and a finite source has
\* yielded no more items than the thread has taken from it.
C6_YieldedIsPrefix ==
    /\ \A k \in DOMAIN yielded : yielded[k] = SourceItem(k)
    /\ ~generator.cyclic => Len(yielded) <= gpos

\* C6 witness: the event is set, the sequence has ended and two items were
\* yielded.
C6_Witness ==
    /\ event /\ wpc = "done" /\ Len(yielded) = 2

\* C16: the sequence ends only in a step that finds the queue empty and the
\* event set, and that step yields nothing.  While the queue holds entries a
\* step of the consumer yields the first of them and does not end the
\* sequence, whether or not the event is set; while the event is not set a
\* step on an empty queue leaves the consumer polling.
C16_EndsOnlyOnEmptyAndSet ==
    [][/\ (wpc # "done" /\ wpc' = "done")
            => (obj_queue = << >> /\ event /\ yielded' = yielded)
       /\ (/\ wpc = "get" /\ obj_queue # << >>
           /\ (wpc' # wpc \/ yielded' # yielded
                  \/ Len(obj_queue') < Len(obj_queue)))
            => /\ wpc' = "get"
               /\ yielded' = Record(yielded, Head(obj_queue))
               /\ obj_queue' = Tail(obj_queue)
       /\ (wpc = "get" /\ obj_queue = << >> /\ ~event /\ event' = event)
            => (wpc' = "get" /\ yielded' = yielded)]_vars

\* C16 witness: the event is set, and the consumer, having yielded an item
\* already, has not ended: the queue still holds an entry.
C16_Witness ==
    /\ event /\ wpc = "get"
    /\ obj_queue # << >> /\ yielded # << >>

=============================================================================
